---- MODULE Spec2Model ----
(***************************************************************************)
(* Role matcher of agent-challenge: src/src/mastra/tools/role-matcher.ts   *)
(* with the resume store (src/unnamed/part_001) and the matchRoles and     *)
(* parseResumes server actions.                                            *)
(*                                                                         *)
(* Texts are TLA+ strings handled character by character, as the code's    *)
(* string methods and regular expressions handle them.  The two non-ASCII  *)
(* characters of generateExplanation are written with ASCII stand-ins that *)
(* occur in no input: BULLET for U+2022 and ELLIPSIS for U+2026.           *)
(***************************************************************************)
EXTENDS Integers, Sequences, FiniteSets, TLC

VARIABLES
  parsedCandidates,   \* resumeStore: let parsedCandidates
  pc,                 \* position of the matchRoles/run call
  jobDescription,     \* run's argument
  candidates,         \* run's local: the list read from the store
  path,               \* which branch of run filled matches
  matches,            \* run's return value
  error,              \* message of the Error run threw, "" if none
  sPc,                \* position of the scoring pipeline (SpecScore)
  sJd,                \* its job description
  sRaw,               \* its candidate as handed over, fields possibly undefined
  sCand,              \* the candidate as the code's guards read it
  sConstraints,       \* extractJdConstraints(sJd)
  sMissing,           \* computeMissingRequiredSkills(...)
  sTrace,             \* running score of calculateMatchPercentage
  sExplanation,       \* generateExplanation(...)
  sThrown,            \* message of the error the pipeline threw, "" if none
  taskPc,             \* per candidate: position of its scoring task (SpecTasks)
  taskScore,          \* per task: its local let score
  taskResult,         \* per candidate: what its task returned, Null before
  callPc,             \* per matchRoles call: its position (SpecRequests)
  callArgs,           \* per call: its arguments jobDescription and candidates
  callRun,            \* per call: the const candidates of its run
  callResult,         \* per call: what its run returned or threw
  callRaced,          \* per call: the store held another array when its run resumed
  matchResults        \* roleMatcherStore, written by setMatchResults

runVars == <<parsedCandidates, pc, jobDescription, candidates, path, matches, error>>
scoreVars == <<sPc, sJd, sRaw, sCand, sConstraints, sMissing, sTrace, sExplanation,
               sThrown>>
vars == <<parsedCandidates, pc, jobDescription, candidates, path, matches, error,
          sPc, sJd, sRaw, sCand, sConstraints, sMissing, sTrace, sExplanation,
          sThrown, taskPc, taskScore, taskResult,
          callPc, callArgs, callRun, callResult, callRaced, matchResults>>
taskVars == <<taskPc, taskScore, taskResult>>
callVars == <<callPc, callArgs, callRun, callResult, callRaced, matchResults>>

-----------------------------------------------------------------------------
(* String primitives: String.prototype methods and character classes.      *)

At(s, i) == SubSeq(s, i, i)

UpperLetters == "ABCDEFGHIJKLMNOPQRSTUVWXYZ"
LowerLetters == "abcdefghijklmnopqrstuvwxyz"
Digits == "0123456789"

LowerSet == {At(LowerLetters, i) : i \in 1..26}
DigitSet == {At(Digits, i) : i \in 1..10}

\* \s of the regular expressions
IsWs(c) == c \in {" ", "\n", "\t"}

IsDigit(c) == c \in DigitSet

DigitVal(c) == (CHOOSE i \in 1..10 : At(Digits, i) = c) - 1

ToLowerMap ==
  [c \in {At(UpperLetters, i) : i \in 1..26} |->
     At(LowerLetters, CHOOSE i \in 1..26 : At(UpperLetters, i) = c)]

LowerChar(c) == IF c \in DOMAIN ToLowerMap THEN ToLowerMap[c] ELSE c

RECURSIVE ToLowerRange(_, _, _)
\* the characters lo..hi of s, lower-cased
ToLowerRange(s, lo, hi) ==
  IF lo > hi THEN ""
  ELSE IF lo = hi THEN LowerChar(At(s, lo))
  ELSE LET mid == (lo + hi) \div 2
       IN ToLowerRange(s, lo, mid) \o ToLowerRange(s, mid + 1, hi)

\* String.prototype.toLowerCase
ToLowerCase(s) == ToLowerRange(s, 1, Len(s))

\* the class [a-z0-9+\.\/#\-\s]
IsJdChar(c) ==
  c \in LowerSet \/ c \in DigitSet \/ c \in {"+", ".", "/", "#", "-"} \/ IsWs(c)

RECURSIVE CleanRange(_, _, _)
\* the characters lo..hi of s, each one outside the class replaced by a space
CleanRange(s, lo, hi) ==
  IF lo > hi THEN ""
  ELSE IF lo = hi THEN (IF IsJdChar(At(s, lo)) THEN At(s, lo) ELSE " ")
  ELSE LET mid == (lo + hi) \div 2
       IN CleanRange(s, lo, mid) \o CleanRange(s, mid + 1, hi)

\* (jobDesc || '').toLowerCase().replace(/[^a-z0-9+\.\/#\-\s]/g, ' ')
JdClean(jobDesc) == LET jd == ToLowerCase(jobDesc) IN CleanRange(jd, 1, Len(jd))

\* s starts with t at position i
StartsAt(s, i, t) ==
  /\ i >= 1
  /\ i + Len(t) - 1 <= Len(s)
  /\ SubSeq(s, i, i + Len(t) - 1) = t

\* String.prototype.includes
Includes(s, t) == \E i \in 1..(Len(s) - Len(t) + 1) : StartsAt(s, i, t)

RECURSIVE SkipWs(_, _)
\* first position at or after i that holds no whitespace
SkipWs(s, i) == IF i <= Len(s) /\ IsWs(At(s, i)) THEN SkipWs(s, i + 1) ELSE i

\* /a\s*b/.test(s)
IncludesWs(s, a, b) ==
  \E i \in 1..Len(s) : StartsAt(s, i, a) /\ StartsAt(s, SkipWs(s, i + Len(a)), b)

RECURSIVE CollapseRange(_, _, _)
\* the characters lo..hi of s, each run of whitespace replaced by one space
CollapseRange(s, lo, hi) ==
  IF lo > hi THEN ""
  ELSE IF lo = hi
    THEN (IF ~IsWs(At(s, lo)) THEN At(s, lo)
          ELSE IF lo > 1 /\ IsWs(At(s, lo - 1)) THEN "" ELSE " ")
  ELSE LET mid == (lo + hi) \div 2
       IN CollapseRange(s, lo, mid) \o CollapseRange(s, mid + 1, hi)

RECURSIVE LastNonWs(_, _)
LastNonWs(s, i) == IF i >= 1 /\ IsWs(At(s, i)) THEN LastNonWs(s, i - 1) ELSE i

\* String.prototype.trim
Trim(s) ==
  LET a == SkipWs(s, 1)
      b == LastNonWs(s, Len(s))
  IN IF a > b THEN "" ELSE SubSeq(s, a, b)

\* s.replace(/\s+/g, ' ').trim()
NormalizeWs(s) == Trim(CollapseRange(s, 1, Len(s)))

RECURSIVE SkipNl(_, _)
SkipNl(s, i) == IF i <= Len(s) /\ At(s, i) = "\n" THEN SkipNl(s, i + 1) ELSE i

\* first position at or after i that holds a newline, Len(s)+1 if none
NextNl(s, i) ==
  LET nl == {j \in i..Len(s) : At(s, j) = "\n"}
  IN IF nl = {} THEN Len(s) + 1 ELSE CHOOSE j \in nl : \A k \in nl : j <= k

RECURSIVE SplitFrom(_, _)
SplitFrom(s, i) ==
  LET e == NextNl(s, i)
  IN IF e > Len(s) THEN <<SubSeq(s, i, Len(s))>>
     ELSE <<SubSeq(s, i, e - 1)>> \o SplitFrom(s, SkipNl(s, e))

\* s.split(/\n+/)
SplitLines(s) == SplitFrom(s, 1)

\* Array.prototype.includes
InSeq(x, q) == \E i \in 1..Len(q) : q[i] = x

RECURSIVE JoinFrom(_, _, _)
JoinFrom(q, sep, i) ==
  IF i > Len(q) THEN ""
  ELSE IF i = Len(q) THEN q[i]
  ELSE q[i] \o sep \o JoinFrom(q, sep, i + 1)

\* Array.prototype.join
Join(q, sep) == JoinFrom(q, sep, 1)

\* Array.prototype.slice(0, n)
\* Slice0 keeping the whole array
SliceAll(q, n) == q

Slice0(q, n) == SubSeq(q, 1, IF Len(q) < n THEN Len(q) ELSE n)

Min(a, b) == IF a < b THEN a ELSE b
Max(a, b) == IF a > b THEN a ELSE b

-----------------------------------------------------------------------------
(* extractJdConstraints                                                    *)

\* the value null of minYears, jdYears and candYears
Null == -1

\* the list is written twice in the source, with the same entries
knownTech ==
  << "react", "next.js", "nextjs", "typescript", "javascript", "node", "node.js",
     "python", "django", "flask", "fastapi", "java", "spring", "spring boot",
     "postgres", "postgresql", "mysql", "mongodb", "redis", "kafka", "rabbitmq",
     "docker", "kubernetes", "helm", "terraform", "ansible", "aws", "azure", "gcp",
     "graphql", "rest", "api", "microservices", "grpc", "react native", "vue", "angular",
     "go", "golang", "ruby", "rails", "php", "laravel", "elixir", "phoenix",
     "pandas", "numpy", "pytorch", "tensorflow", "ml", "machine learning",
     "data science", "airflow", "dbt", "snowflake" >>

\* (?:years?|yrs?) at position i
YearsWordAt(s, i) == StartsAt(s, i, "year") \/ StartsAt(s, i, "yr")

\* number of characters of \d{1,2} taken at position i (0: no digit there)
IntLenAt(s, i) ==
  IF i > Len(s) \/ ~IsDigit(At(s, i)) THEN 0
  ELSE IF i + 1 <= Len(s) /\ IsDigit(At(s, i + 1)) THEN 2 ELSE 1

\* parseInt of the n digits at position i
IntAt(s, i, n) ==
  IF n = 2 THEN 10 * DigitVal(At(s, i)) + DigitVal(At(s, i + 1))
  ELSE DigitVal(At(s, i))

\* /(\d{1,2})\+?\s*(?:years?|yrs?)/ matched at position i
JdYearsMatchAt(s, i) ==
  LET n == IntLenAt(s, i)
      p == i + n
      q == IF p <= Len(s) /\ At(s, p) = "+" THEN p + 1 ELSE p
  IN n > 0 /\ YearsWordAt(s, SkipWs(s, q))

\* match(...) ? parseInt(match[1], 10) : null   (String.match: leftmost match)
JdYearsOf(s) ==
  LET hits == {i \in 1..Len(s) : JdYearsMatchAt(s, i)}
  IN IF hits = {} THEN Null
     ELSE LET i == CHOOSE h \in hits : \A g \in hits : h <= g
          IN IntAt(s, i, IntLenAt(s, i))

\* /must\s*have|requirements|required|qualification/.test(line)
IsRequiredLine(line) ==
  \/ IncludesWs(line, "must", "have")
  \/ Includes(line, "requirements")
  \/ Includes(line, "required")
  \/ Includes(line, "qualification")

\* the tokens of knownTech that text includes and acc does not hold yet
TechIn(text, acc) ==
  SelectSeq(knownTech, LAMBDA t : Includes(text, t) /\ ~InSeq(t, acc))

RECURSIVE ScanBlocks(_, _, _)
\* for (const block of requiredBlocks) for (const tech of knownTech) ... add
ScanBlocks(blocks, i, acc) ==
  IF i > Len(blocks) THEN acc
  ELSE ScanBlocks(blocks, i + 1, acc \o TechIn(blocks[i], acc))

\* RequiredOrFallback scanning the whole text in every case
RequiredAndText(found, normalized) == found \o TechIn(normalized, found)

\* if (requiredSkillsSet.size === 0): the tokens of the whole text
RequiredOrFallback(found, normalized) ==
  IF Len(found) = 0 THEN TechIn(normalized, <<>>) ELSE found

\* requiredSkills, in the insertion order of the Set
RequiredSkillsOf(normalized) ==
  RequiredOrFallback(
    ScanBlocks(SelectSeq(SplitLines(normalized), IsRequiredLine), 1, <<>>),
    normalized)

\* IsFrontendText taking the word react for a frontend signal
IsFrontendTextReact(s) ==
  \/ Includes(s, "frontend") \/ Includes(s, "front-end") \/ Includes(s, "ui")
  \/ Includes(s, "react")

IsFrontendText(s) == Includes(s, "frontend") \/ Includes(s, "front-end") \/ Includes(s, "ui")
IsBackendText(s) == Includes(s, "backend") \/ Includes(s, "back-end") \/ Includes(s, "server")
IsDataText(s) ==
  \/ Includes(s, "data") \/ Includes(s, "ml")
  \/ IncludesWs(s, "machine", "learning") \/ Includes(s, "ai")
IsDevopsText(s) ==
  Includes(s, "devops") \/ Includes(s, "sre") \/ IncludesWs(s, "site", "reliability")

RoleKeywordsOf(normalized) ==
  (IF IsFrontendText(normalized) THEN <<"frontend">> ELSE <<>>)
  \o (IF IsBackendText(normalized) THEN <<"backend">> ELSE <<>>)
  \o (IF IncludesWs(normalized, "full", "stack") THEN <<"full stack">> ELSE <<>>)
  \o (IF IsDataText(normalized) THEN <<"data">> ELSE <<>>)
  \o (IF IsDevopsText(normalized) THEN <<"devops">> ELSE <<>>)

\* the constraints read from the normalized text
ConstraintsOf(normalized) ==
  [requiredSkills |-> RequiredSkillsOf(normalized),
   minYears |-> JdYearsOf(normalized),
   roleKeywords |-> RoleKeywordsOf(normalized)]

extractJdConstraints(jobDesc) == ConstraintsOf(JdClean(jobDesc))

-----------------------------------------------------------------------------
(* computeMissingRequiredSkills                                            *)

\* the Set of (candidate.skills || []).map(lower, collapse, trim)
MissingCandSkills(candidate) ==
  {NormalizeWs(ToLowerCase(candidate.skills[i])) : i \in 1..Len(candidate.skills)}

\* const norm = (s) => ...
norm(s) ==
  LET t == NormalizeWs(ToLowerCase(s))
  IN IF t = "node" THEN "node.js"
     ELSE IF t = "postgres" THEN "postgresql"
     ELSE t

computeMissingRequiredSkills(requiredSkills, candidate) ==
  LET candSkills == MissingCandSkills(candidate)
  IN SelectSeq(requiredSkills, LAMBDA req : norm(req) \notin candSkills)

-----------------------------------------------------------------------------
(* calculateMatchPercentage                                                *)

RECURSIVE DigitRunEnd(_, _)
\* first position at or after i that holds no digit
DigitRunEnd(s, i) == IF i <= Len(s) /\ IsDigit(At(s, i)) THEN DigitRunEnd(s, i + 1) ELSE i

RECURSIVE DigitsValue(_, _, _, _)
\* value of the digits of s in i..j-1, read after the value acc
DigitsValue(s, i, j, acc) ==
  IF i >= j THEN acc ELSE DigitsValue(s, i + 1, j, 10 * acc + DigitVal(At(s, i)))

RECURSIVE Pow10(_)
Pow10(k) == IF k = 0 THEN 1 ELSE 10 * Pow10(k - 1)

\* end of the group (\d{1,2}(?:\.\d+)?) at position i: <<end of integer part, end of group>>
CandNumberAt(s, i) ==
  LET p == i + IntLenAt(s, i)
      f == IF p + 1 <= Len(s) /\ At(s, p) = "." /\ IsDigit(At(s, p + 1))
           THEN DigitRunEnd(s, p + 1) ELSE p
  IN <<p, f>>

\* /(\d{1,2}(?:\.\d+)?)\s*(?:years?|yrs?)/ matched at position i
CandYearsMatchAt(s, i) ==
  IntLenAt(s, i) > 0 /\ YearsWordAt(s, SkipWs(s, CandNumberAt(s, i)[2]))

\* match(...) ? parseFloat(match[1]) : null, as the fraction num/den
CandYearsOf(total_experience) ==
  LET s == ToLowerCase(total_experience)
      hits == {i \in 1..Len(s) : CandYearsMatchAt(s, i)}
  IN IF hits = {} THEN [num |-> Null, den |-> 1]
     ELSE LET i == CHOOSE h \in hits : \A g \in hits : h <= g
              pf == CandNumberAt(s, i)
              whole == IntAt(s, i, IntLenAt(s, i))
          IN IF pf[2] = pf[1] THEN [num |-> whole, den |-> 1]
             ELSE [num |-> DigitsValue(s, pf[1] + 1, pf[2], whole),
                   den |-> Pow10(pf[2] - pf[1] - 1)]

\* candSkillsSet: lower-cased, normalized, synonyms folded
CandSkillsSet(candidate) ==
  {LET skill == NormalizeWs(ToLowerCase(candidate.skills[i]))
   IN IF skill = "node" THEN "node.js"
      ELSE IF skill = "postgres" THEN "postgresql"
      ELSE skill : i \in 1..Len(candidate.skills)}

\* jdSkillsSet
JdSkillsSet(jdClean) == {knownTech[i] : i \in {k \in 1..Len(knownTech) : Includes(jdClean, knownTech[k])}}

frontendIndicators == {"react", "next.js", "nextjs", "vue", "angular"}
backendIndicators ==
  {"node.js", "django", "spring", "rails", "go", "golang", "php", "laravel", "flask", "fastapi"}

\* /(full\s*stack|fullstack|full-stack)/
IsFullStackText(s) == IncludesWs(s, "full", "stack") \/ Includes(s, "full-stack")

\* /developer|engineer|architect|manager/
IsSeniorityText(s) ==
  \/ Includes(s, "developer") \/ Includes(s, "engineer")
  \/ Includes(s, "architect") \/ Includes(s, "manager")

\* YearsBonus with strict comparisons for the two partial bonuses
YearsBonusStrict(jdYears, cy) ==
  IF jdYears = Null \/ cy.num = Null THEN 0
  ELSE IF cy.num >= jdYears * cy.den THEN 10
  ELSE IF jdYears * cy.den - cy.num < cy.den THEN 6
  ELSE IF jdYears * cy.den - cy.num < 2 * cy.den THEN 3
  ELSE 0

\* if (jdYears != null && candYears != null) { diff = Math.abs(...); ... }:
\* below the first test candYears < jdYears, so diff is jdYears - candYears
YearsBonus(jdYears, cy) ==
  IF jdYears = Null \/ cy.num = Null THEN 0
  ELSE IF cy.num >= jdYears * cy.den THEN 10
  ELSE IF jdYears * cy.den - cy.num <= cy.den THEN 6
  ELSE IF jdYears * cy.den - cy.num <= 2 * cy.den THEN 3
  ELSE 0

\* overlap: the tokens of jdSkillsSet that candSkillsSet has
OverlapCount(jdClean, candSkillsSet) ==
  Cardinality(JdSkillsSet(jdClean) \cap candSkillsSet)

\* SkillsBonus getting smaller with every overlap
SkillsBonusDecreasing(overlap) == 35 - Min(35, overlap * 8)

\* SkillsBonus without the limit of 35
SkillsBonusNoLimit(overlap) == overlap * 8

\* if (overlap > 0) score += Math.min(35, overlap * 8)
SkillsBonus(overlap) == IF overlap > 0 THEN Min(35, overlap * 8) ELSE 0

\* the five role alignment bonuses
RoleBonus(jdClean, candSkillsSet, candRole) ==
  LET hasFrontendSkill == frontendIndicators \cap candSkillsSet # {}
      hasBackendSkill == backendIndicators \cap candSkillsSet # {}
      seniority == IF IsSeniorityText(jdClean) /\ IsSeniorityText(candRole) THEN 6 ELSE 0
      frontend == IF IsFrontendText(jdClean) /\ (IsFrontendText(candRole) \/ hasFrontendSkill)
                  THEN 6 ELSE 0
      backend == IF IsBackendText(jdClean) /\ (IsBackendText(candRole) \/ hasBackendSkill)
                 THEN 6 ELSE 0
      fullStack == IF IsFullStackText(jdClean)
                      /\ (IsFullStackText(candRole) \/ (hasFrontendSkill /\ hasBackendSkill))
                   THEN 10 ELSE 0
      data == IF IsDataText(jdClean) /\ IsDataText(candRole) THEN 6 ELSE 0
  IN seniority + frontend + backend + fullStack + data

\* the two education hints
EducationBonus(jdClean, candEdu) ==
  LET bachelor == IF (Includes(jdClean, "bachelor") \/ Includes(jdClean, "bs")
                        \/ Includes(jdClean, "b.tech") \/ Includes(jdClean, "be"))
                     /\ (Includes(candEdu, "bachelor") \/ Includes(candEdu, "b.tech")
                           \/ Includes(candEdu, "be"))
                  THEN 3 ELSE 0
      master == IF (Includes(jdClean, "master") \/ Includes(jdClean, "ms")
                      \/ Includes(jdClean, "mba"))
                   /\ (Includes(candEdu, "master") \/ Includes(candEdu, "ms")
                         \/ Includes(candEdu, "mba"))
                THEN 3 ELSE 0
  IN bachelor + master

\* what the additive steps add, step by step
AdditiveParts(jdClean, jdYears, cy, candSkillsSet, candRole, candEdu) ==
  [yearsBonus |-> YearsBonus(jdYears, cy),
   overlap |-> OverlapCount(jdClean, candSkillsSet),
   roleBonus |-> RoleBonus(jdClean, candSkillsSet, candRole),
   educationBonus |-> EducationBonus(jdClean, candEdu)]

\* let score = 40 and the score += of the additive steps
SumParts(parts) ==
  40 + parts.yearsBonus + SkillsBonus(parts.overlap) + parts.roleBonus
     + parts.educationBonus

\* the additive part of the score: base, experience, overlap, role, education
AdditiveScore(jdClean, jdYears, cy, candSkillsSet, candRole, candEdu) ==
  SumParts(AdditiveParts(jdClean, jdYears, cy, candSkillsSet, candRole, candEdu))

\* roleMatched of the role-focus enforcement
RoleMatched(roleKeywords, candSkillsSet, candRole) ==
  LET hasFrontendSkill == frontendIndicators \cap candSkillsSet # {}
      hasBackendSkill == backendIndicators \cap candSkillsSet # {}
  IN \/ InSeq("frontend", roleKeywords) /\ (IsFrontendText(candRole) \/ hasFrontendSkill)
     \/ InSeq("backend", roleKeywords) /\ (IsBackendText(candRole) \/ hasBackendSkill)
     \/ InSeq("full stack", roleKeywords)
          /\ (IsFullStackText(candRole) \/ (hasFrontendSkill /\ hasBackendSkill))
     \/ InSeq("data", roleKeywords) /\ IsDataText(candRole)
     \/ InSeq("devops", roleKeywords) /\ IsDevopsText(candRole)

\* MissingPenalty without the cap at 45
MissingPenaltyNoCap(score, missingCount) ==
  IF missingCount > 0 THEN score - Min(25, missingCount * 8) ELSE score

\* score -= min(25, missing * 8); score = min(score, 45)
MissingPenalty(score, missingCount) ==
  IF missingCount > 0 THEN Min(score - Min(25, missingCount * 8), 45) ELSE score

\* RolePenalty assigning the cap instead of taking the minimum
RolePenaltySetsCap(score, roleKeywords, roleMatched) ==
  IF Len(roleKeywords) > 0 /\ ~roleMatched THEN 50 ELSE score

\* RolePenalty without the cap at 50
RolePenaltyNoCap(score, roleKeywords, roleMatched) ==
  IF Len(roleKeywords) > 0 /\ ~roleMatched THEN score - 20 ELSE score

\* score -= 20; score = min(score, 50)
RolePenalty(score, roleKeywords, roleMatched) ==
  IF Len(roleKeywords) > 0 /\ ~roleMatched THEN Min(score - 20, 50) ELSE score

\* candYears < jdYears - 0.5
YearsShort(jdYears, cy) ==
  jdYears # Null /\ cy.num # Null /\ 2 * cy.num < (2 * jdYears - 1) * cy.den

\* YearsPenalty without the cap at 55
YearsPenaltyNoCap(score, jdYears, cy) ==
  IF YearsShort(jdYears, cy) THEN score - 20 ELSE score

\* score -= 20; score = min(score, 55)
YearsPenalty(score, jdYears, cy) ==
  IF YearsShort(jdYears, cy) THEN Min(score - 20, 55) ELSE score

\* ClampScore without the lower bound
ClampScoreNoLower(score) == Min(100, score)

\* ClampScore without the upper bound
ClampScoreNoUpper(score) == Max(0, score)

\* Math.max(0, Math.min(100, Math.round(score))): score is an integer here
ClampScore(score) == Max(0, Min(100, score))

\* the three penalty steps and the clamp, from the additive score on
PenaltySteps(additive, missingCount, roleKeywords, roleMatched, jdYears, cy) ==
  LET afterMissing == MissingPenalty(additive, missingCount)
      afterRole == RolePenalty(afterMissing, roleKeywords, roleMatched)
      afterYears == YearsPenalty(afterRole, jdYears, cy)
  IN [additive |-> additive,
      afterMissing |-> afterMissing,
      afterRole |-> afterRole,
      afterYears |-> afterYears,
      final |-> ClampScore(afterYears),
      missingCount |-> missingCount,
      roleFocus |-> Len(roleKeywords) > 0,
      roleMatched |-> roleMatched,
      jdYears |-> jdYears,
      candYears |-> cy]

\* the running scores, with what the additive steps added
ScoreWithParts(parts, missingCount, roleKeywords, roleMatched, jdYears, cy) ==
  PenaltySteps(SumParts(parts), missingCount, roleKeywords, roleMatched, jdYears, cy)
    @@ parts @@ [skillsBonus |-> SkillsBonus(parts.overlap)]

\* the score from the values calculateMatchPercentage reads off its two arguments
ScoreWith(jdClean, roleKeywords, missingCount, jdYears, cy, candSkillsSet, candRole, candEdu) ==
  ScoreWithParts(AdditiveParts(jdClean, jdYears, cy, candSkillsSet, candRole, candEdu),
                 missingCount, roleKeywords,
                 RoleMatched(roleKeywords, candSkillsSet, candRole), jdYears, cy)

\* const constraints = ...; const missingRequired = ...; jdYears; candYears; candSkillsSet
ScoreSteps(jdClean, constraints, candidate) ==
  ScoreWith(jdClean, constraints.roleKeywords,
            Len(computeMissingRequiredSkills(constraints.requiredSkills, candidate)),
            JdYearsOf(jdClean), CandYearsOf(candidate.total_experience),
            CandSkillsSet(candidate), ToLowerCase(candidate.last_role),
            ToLowerCase(candidate.education))

\* the running score of calculateMatchPercentage after each of its steps
ScoreTrace(jobDesc, candidate) ==
  ScoreSteps(JdClean(jobDesc), extractJdConstraints(jobDesc), candidate)

calculateMatchPercentage(jobDesc, candidate) == ScoreTrace(jobDesc, candidate).final

-----------------------------------------------------------------------------
(* generateExplanation                                                     *)

\* stand-ins for the characters U+2022 and U+2026
BULLET == "*"
ELLIPSIS == "^"

\* PiecesText that never uses the candidate's name
PiecesTextNoName(pieces, candidate) ==
  IF Len(pieces) > 0 THEN Join(pieces, " " \o BULLET \o " ")
  ELSE "Candidate appears relevant."

\* pieces.length ? pieces.join(' • ') : `${candidate.name || 'Candidate'} appears relevant.`
PiecesText(pieces, candidate) ==
  IF Len(pieces) > 0 THEN Join(pieces, " " \o BULLET \o " ")
  ELSE (IF candidate.name # "" THEN candidate.name ELSE "Candidate") \o " appears relevant."

\* the pieces pushed, in order, for a candidate and its missing required skills
ExplanationPieces(candidate, topSkills, missing) ==
  (IF candidate.last_role # "" THEN <<"Role: " \o candidate.last_role>> ELSE <<>>)
  \o (IF topSkills # "" THEN <<"Skills: " \o topSkills>> ELSE <<>>)
  \o (IF candidate.total_experience # ""
      THEN <<"Experience: " \o candidate.total_experience>> ELSE <<>>)
  \o (IF candidate.education # "" THEN <<"Education: " \o candidate.education>> ELSE <<>>)
  \o (IF Len(missing) > 0
      THEN <<"Missing required: " \o Join(Slice0(missing, 3), ", ")
               \o (IF Len(missing) > 3 THEN ELLIPSIS ELSE "")>>
      ELSE <<>>)

\* matchPercentage is not read
generateExplanation(candidate, matchPercentage, jobDesc) ==
  PiecesText(
    ExplanationPieces(
      candidate,
      Join(Slice0(candidate.skills, 3), ", "),
      computeMissingRequiredSkills(extractJdConstraints(jobDesc).requiredSkills, candidate)),
    candidate)

-----------------------------------------------------------------------------
(* Inputs                                                                  *)

JdScenarioA == "5+ years React developer, must have: react, typescript"
JdBackend == "Backend Engineer\nMust have: Node.js, PostgreSQL\n3+ yrs"
JdPython == "Python, Django, PostgreSQL"
JdFullStack ==
  "Senior full stack engineer (frontend/backend), data, 2 years, bachelor or master. "
  \o "Required: react, node.js, django, python, typescript"
JdOps == "Backend developer, 3+ years. Required: python, aws, docker, kubernetes, redis"
JdEmpty == ""
JdBlank == " \n\t"
JdGarbage == "???"
JdMixed == "We use Python and AWS\nRequired: react\nNice to have: docker"
JdNoTechRequired == "Requirements: team player\nWe use Python"

JobDescriptions ==
  {JdScenarioA, JdBackend, JdPython, JdFullStack, JdOps, JdEmpty, JdBlank, JdGarbage,
   JdMixed, JdNoTechRequired}

SkillLists ==
  { <<>>,
    <<"Java">>,
    <<"React", "TypeScript", "Node.js">>,
    <<"node">>,
    <<"postgres">>,
    <<"Node.js", "PostgreSQL">>,
    <<"node", "Node.js", "postgres">>,
    <<"React", "Vue">>,
    <<"React", "TypeScript", "Node.js", "Python", "Django", "Go">>,
    <<"React", "TypeScript", "Node.js", "Python", "Django">>,
    <<"Python", "AWS", "Docker", "Kubernetes", "Redis">>,
    <<"Python", "Django", "PostgreSQL", "Go">>,
    <<"Python", "Django", "PostgreSQL">> }

Experiences == {"", "6 years", "4.4 years", "4.5 yrs", "1 year", "10+ years"}

Roles == {"", "Frontend Developer", "Software Developer", "Full Stack Data Engineer"}

Educations == {"", "B.Tech, MBA"}

\* CandidateSchema
Candidate(name, skills, total_experience, last_role, education) ==
  [name |-> name, email |-> "", skills |-> skills,
   total_experience |-> total_experience, last_role |-> last_role,
   education |-> education]

NoCandidate == Candidate("", <<>>, "", "", "")

CandidateFields == {"name", "email", "skills", "total_experience", "last_role", "education"}

\* a candidate object in which the properties named in absent are undefined
Raw(c, absent) ==
  [f \in CandidateFields |-> [defined |-> f \notin absent, value |-> c[f]]]

\* x.toLowerCase() on the property itself: a TypeError if it is undefined
MethodOnString(o) == [thrown |-> ~o.defined, value |-> o.value]

\* (x || ''), and the truthiness tests of generateExplanation
OrEmptyString(o) == [thrown |-> FALSE, value |-> IF o.defined THEN o.value ELSE ""]

\* (candidate.skills || []) and Array.isArray(candidate.skills) ? ... : []
OrEmptyArray(o) == [thrown |-> FALSE, value |-> IF o.defined THEN o.value ELSE <<>>]

\* the candidate the three functions compute on: each property through its guard
GuardedView(raw) ==
  Candidate(OrEmptyString(raw.name).value, OrEmptyArray(raw.skills).value,
            OrEmptyString(raw.total_experience).value,
            OrEmptyString(raw.last_role).value, OrEmptyString(raw.education).value)

\* the property reads of computeMissingRequiredSkills
ComputeMissingReads(raw) == <<OrEmptyArray(raw.skills)>>

\* the property reads of calculateMatchPercentage, those of its callee included
CalculateReads(raw) ==
  <<OrEmptyArray(raw.skills), OrEmptyString(raw.last_role),
    OrEmptyString(raw.education)>>
  \o ComputeMissingReads(raw)
  \o <<OrEmptyString(raw.total_experience)>>

\* the property reads of generateExplanation, those of its callee included
ExplainReads(raw) ==
  <<OrEmptyArray(raw.skills), OrEmptyString(raw.last_role),
    OrEmptyString(raw.total_experience), OrEmptyString(raw.education)>>
  \o ComputeMissingReads(raw)
  \o <<OrEmptyString(raw.name)>>

\* one of the reads threw
Throws(reads) == \E i \in 1..Len(reads) : reads[i].thrown

\* the candidates the scoring pipeline is run on
ScoreCandidates ==
  {Candidate("Ann", sk, ex, ro, ed) :
     sk \in SkillLists, ex \in Experiences, ro \in Roles, ed \in Educations}
  \cup {NoCandidate}

\* the candidate objects handed to the pipeline: every candidate complete, and
\* the empty one with any of its properties undefined
RawCandidates ==
  {Raw(c, {}) : c \in ScoreCandidates}
  \cup {Raw(NoCandidate, absent) : absent \in SUBSET CandidateFields}

NoConstraints == [requiredSkills |-> <<>>, minYears |-> Null, roleKeywords |-> <<>>]
NoTrace == ScoreTrace("", NoCandidate)

-----------------------------------------------------------------------------
(* The scoring pipeline on one job description and one candidate           *)

RunIdle ==
  /\ parsedCandidates = <<>>
  /\ pc = "idle"
  /\ jobDescription = ""
  /\ candidates = <<>>
  /\ path = "none"
  /\ matches = <<>>
  /\ error = ""

TasksIdle ==
  /\ taskPc = <<>>
  /\ taskScore = <<>>
  /\ taskResult = <<>>

\* matchRoles calls that may be in flight together
MaxCalls == 2

Calls == 1..MaxCalls

NoArgs == [jobDescription |-> "", candidates |-> <<>>]
NoResult == [error |-> "", matches |-> <<>>]

CallsIdle ==
  /\ callPc = [c \in Calls |-> "idle"]
  /\ callArgs = [c \in Calls |-> NoArgs]
  /\ callRun = [c \in Calls |-> <<>>]
  /\ callResult = [c \in Calls |-> NoResult]
  /\ callRaced = [c \in Calls |-> FALSE]
  /\ matchResults = <<>>

ScoreIdle ==
  /\ sPc = "input"
  /\ sJd = ""
  /\ sRaw = Raw(NoCandidate, {})
  /\ sCand = NoCandidate
  /\ sThrown = ""
  /\ sConstraints = NoConstraints
  /\ sMissing = <<>>
  /\ sTrace = NoTrace
  /\ sExplanation = ""

InitScore ==
  /\ RunIdle
  /\ TasksIdle
  /\ CallsIdle
  /\ sPc = "input"
  /\ sJd \in JobDescriptions
  /\ sRaw \in RawCandidates
  /\ sCand = GuardedView(sRaw)
  /\ sThrown = ""
  /\ sConstraints = NoConstraints
  /\ sMissing = <<>>
  /\ sTrace = NoTrace
  /\ sExplanation = ""

TypeErrorMessage == "TypeError: Cannot read properties of undefined"

Extract ==
  /\ sPc = "input"
  /\ sConstraints' = extractJdConstraints(sJd)
  /\ sPc' = "extracted"
  /\ UNCHANGED <<sJd, sRaw, sCand, sMissing, sTrace, sExplanation, sThrown>>
  /\ UNCHANGED runVars
  /\ UNCHANGED taskVars
  /\ UNCHANGED callVars

ComputeMissing ==
  /\ sPc = "extracted"
  /\ IF Throws(ComputeMissingReads(sRaw))
     THEN sPc' = "thrown" /\ sThrown' = TypeErrorMessage /\ UNCHANGED sMissing
     ELSE /\ sMissing' = computeMissingRequiredSkills(sConstraints.requiredSkills, sCand)
          /\ sPc' = "compared"
          /\ UNCHANGED sThrown
  /\ UNCHANGED <<sJd, sRaw, sCand, sConstraints, sTrace, sExplanation>>
  /\ UNCHANGED runVars
  /\ UNCHANGED taskVars
  /\ UNCHANGED callVars

Calculate ==
  /\ sPc = "compared"
  /\ IF Throws(CalculateReads(sRaw))
     THEN sPc' = "thrown" /\ sThrown' = TypeErrorMessage /\ UNCHANGED sTrace
     ELSE /\ sTrace' = ScoreTrace(sJd, sCand)
          /\ sPc' = "scored"
          /\ UNCHANGED sThrown
  /\ UNCHANGED <<sJd, sRaw, sCand, sConstraints, sMissing, sExplanation>>
  /\ UNCHANGED runVars
  /\ UNCHANGED taskVars
  /\ UNCHANGED callVars

Explain ==
  /\ sPc = "scored"
  /\ IF Throws(ExplainReads(sRaw))
     THEN sPc' = "thrown" /\ sThrown' = TypeErrorMessage /\ UNCHANGED sExplanation
     ELSE /\ sExplanation' = generateExplanation(sCand, sTrace.final, sJd)
          /\ sPc' = "explained"
          /\ UNCHANGED sThrown
  /\ UNCHANGED <<sJd, sRaw, sCand, sConstraints, sMissing, sTrace>>
  /\ UNCHANGED runVars
  /\ UNCHANGED taskVars
  /\ UNCHANGED callVars

NextScore == Extract \/ ComputeMissing \/ Calculate \/ Explain

SpecScore == InitScore /\ [][NextScore]_vars

-----------------------------------------------------------------------------
(* run, called by one client at a time on the global resume store          *)

\* longest candidate list a caller stores
MaxCands == 2

CandAnn == Candidate("Ann", <<"React", "TypeScript", "Node.js">>, "6 years",
                     "Frontend Developer", "")
CandBob == Candidate("Bob", <<"Java">>, "", "", "")
CandCid == Candidate("Cid", <<"TypeScript", "React">>, "7 years", "Web Developer", "B.Tech")

CandidatePool == {CandAnn, CandBob, CandCid}

CandidateLists == UNION {[1..n -> CandidatePool] : n \in 0..MaxCands}

RunJobDescriptions == {JdScenarioA, JdBackend, JdEmpty, JdBlank}

\* numbers an LLM may put in matchPercentage
LlmPercents == {50, 150}

\* what interpretMatchesWithLLM resolves to for n candidates: null (no provider
\* configured, network error, non-OK status, no content, unparsable or non-array
\* content, an item the schema rejects) or the parsed array, of any length and
\* with any numbers in it
LlmReplies(n) ==
  {[isNull |-> TRUE, items |-> <<>>], [isNull |-> FALSE, items |-> <<>>]}
  \cup {[isNull |-> FALSE, items |-> items] :
          items \in [1..n -> [candidateIndex : 0..n,
                              matchPercentage : LlmPercents,
                              explanation : {"llm"}]]}

JdRequiredMessage == "Job description is required for matching."
NoResumesMessage == "No resumes found. Please run the Resume Parser Agent first."
\* InputError with the two checks in the other order
InputErrorStoreFirst(jd, stored) ==
  IF Len(stored) = 0 THEN NoResumesMessage
  ELSE IF Trim(jd) = "" THEN JdRequiredMessage
  ELSE ""

\* the message of the Error run throws before it does any matching, "" if none
InputError(jd, stored) ==
  IF Trim(jd) = "" THEN JdRequiredMessage
  ELSE IF Len(stored) = 0 THEN NoResumesMessage
  ELSE ""

\* candidates.map((candidate, index) => ({...}))
HeuristicMatches(jd, cands) ==
  [i \in 1..Len(cands) |->
     [candidateIndex |-> i - 1,
      matchPercentage |-> calculateMatchPercentage(jd, cands[i]),
      explanation |-> generateExplanation(cands[i], 0, jd)]]

\* m put into the descending sequence sorted, after the entries that compare equal
InsertMatch(sorted, m) ==
  LET k == Cardinality({i \in 1..Len(sorted) :
                          sorted[i].matchPercentage >= m.matchPercentage})
  IN SubSeq(sorted, 1, k) \o <<m>> \o SubSeq(sorted, k + 1, Len(sorted))

RECURSIVE SortFrom(_, _, _)
SortFrom(ms, i, acc) ==
  IF i > Len(ms) THEN acc ELSE SortFrom(ms, i + 1, InsertMatch(acc, ms[i]))

\* SortMatches leaving the order as it is
SortMatchesNone(ms) == ms

\* matches.sort((a, b) => b.matchPercentage - a.matchPercentage); the sort is stable
SortMatches(ms) == SortFrom(ms, 1, <<>>)

\* Regenerate leaving every explanation as it is
RegenerateNone(ms, cands, jd) == ms

\* matches.forEach(match => match.explanation = generateExplanation(candidates[...], ...))
Regenerate(ms, cands, jd) ==
  [i \in 1..Len(ms) |->
     [ms[i] EXCEPT !.explanation =
        generateExplanation(cands[ms[i].candidateIndex + 1], ms[i].matchPercentage, jd)]]

\* candidates[match.candidateIndex] is undefined for some match
SomeIndexUndefined(ms, cands) ==
  \E i \in 1..Len(ms) : ms[i].candidateIndex \notin 0..(Len(cands) - 1)

Init == RunIdle /\ ScoreIdle /\ TasksIdle /\ CallsIdle

\* resumeStore.setParsedCandidates, called by parseResumes and matchRoles
SetParsedCandidates(stored) ==
  /\ pc = "idle"
  /\ parsedCandidates' = stored
  /\ UNCHANGED <<pc, jobDescription, candidates, path, matches, error>>
  /\ UNCHANGED scoreVars
  /\ UNCHANGED taskVars
  /\ UNCHANGED callVars

\* run(jd) up to its await: the input checks and the read of the store
RunStart(jd) ==
  /\ pc = "idle"
  /\ jobDescription' = jd
  /\ error' = InputError(jd, parsedCandidates)
  /\ candidates' = IF Trim(jd) = "" THEN <<>> ELSE parsedCandidates
  /\ pc' = IF InputError(jd, parsedCandidates) = "" THEN "awaitLLM" ELSE "done"
  /\ UNCHANGED <<parsedCandidates, path, matches>>
  /\ UNCHANGED scoreVars
  /\ UNCHANGED taskVars
  /\ UNCHANGED callVars

\* llmMatches && llmMatches.length === candidates.length
Accepted(reply, cands) == ~reply.isNull /\ Len(reply.items) = Len(cands)

\* matches before the sort: the LLM's if accepted, the heuristic ones otherwise
ChosenMatches(reply, jd, cands) ==
  IF Accepted(reply, cands) THEN reply.items ELSE HeuristicMatches(jd, cands)

\* RunOutcome of a run that sorts the candidates array along with matches
RunOutcomeReordering(sorted, cands, jd) ==
  IF SomeIndexUndefined(sorted, cands)
  THEN [error |-> TypeErrorMessage, matches |-> <<>>, candidates |-> cands]
  ELSE [error |-> "", matches |-> Regenerate(sorted, cands, jd),
        candidates |-> [i \in 1..Len(sorted) |-> cands[sorted[i].candidateIndex + 1]]]

\* what run returns or throws once matches is sorted, and the array that its
\* local candidates and the store both reference, which run only reads
\* (candidates.length, candidates.map, candidates[i])
RunOutcome(sorted, cands, jd) ==
  IF SomeIndexUndefined(sorted, cands)
  THEN [error |-> TypeErrorMessage, matches |-> <<>>, candidates |-> cands]
  ELSE [error |-> "", matches |-> Regenerate(sorted, cands, jd), candidates |-> cands]

\* run after the await: choice of the matches, sort, explanations
RunFinish(reply) ==
  /\ pc = "awaitLLM"
  /\ path' = IF Accepted(reply, candidates) THEN "llm" ELSE "heuristic"
  /\ \E out \in {RunOutcome(SortMatches(ChosenMatches(reply, jobDescription, candidates)),
                            candidates, jobDescription)} :
       /\ error' = out.error
       /\ matches' = out.matches
       /\ parsedCandidates' = out.candidates
  /\ pc' = "done"
  /\ UNCHANGED <<jobDescription, candidates>>
  /\ UNCHANGED scoreVars
  /\ UNCHANGED taskVars
  /\ UNCHANGED callVars

\* the caller has taken the result or the error
RunReturn ==
  /\ pc = "done"
  /\ pc' = "idle"
  /\ jobDescription' = ""
  /\ candidates' = <<>>
  /\ path' = "none"
  /\ matches' = <<>>
  /\ error' = ""
  /\ UNCHANGED parsedCandidates
  /\ UNCHANGED scoreVars
  /\ UNCHANGED taskVars
  /\ UNCHANGED callVars

Next ==
  \/ \E stored \in CandidateLists : SetParsedCandidates(stored)
  \/ \E jd \in RunJobDescriptions : RunStart(jd)
  \/ \E reply \in LlmReplies(Len(candidates)) : RunFinish(reply)
  \/ RunReturn

Spec == Init /\ [][Next]_vars

-----------------------------------------------------------------------------
(* The heuristic branch of run with one scoring task per candidate, the    *)
(* statements of calculateMatchPercentage that write its score interleaved *)

\* longest candidate list scored by tasks
MaxTasks == 2

TaskPool == {CandAnn, CandBob}

TaskLists == UNION {[1..n -> TaskPool] : n \in 1..MaxTasks}

TaskJobDescriptions == {JdScenarioA, JdBackend}

\* every task writing one score shared by all
ScoreCellShared(i) == 1

\* let score is a local of the call: task i has its own
ScoreCell(i) == i

InitTasks ==
  /\ ScoreIdle
  /\ CallsIdle
  /\ parsedCandidates \in TaskLists
  /\ candidates = parsedCandidates
  /\ jobDescription \in TaskJobDescriptions
  /\ pc = "scoring"
  /\ path = "heuristic"
  /\ matches = <<>>
  /\ error = ""
  /\ taskPc = [i \in 1..Len(parsedCandidates) |-> "base"]
  /\ taskScore = [i \in 1..Len(parsedCandidates) |-> 0]
  /\ taskResult = [i \in 1..Len(parsedCandidates) |-> Null]

\* task i goes from position from to position to, its score becoming value
TaskWrite(i, from, to, value) ==
  /\ pc = "scoring"
  /\ taskPc[i] = from
  /\ taskScore' = [taskScore EXCEPT ![ScoreCell(i)] = value]
  /\ taskPc' = [taskPc EXCEPT ![i] = to]
  /\ UNCHANGED <<taskResult, runVars, scoreVars, callVars>>

\* let score = 40
TaskBase(i) == TaskWrite(i, "base", "additive", 40)

\* the score += of the experience, overlap, role and education bonuses
TaskAdditive(i) ==
  /\ taskPc[i] = "additive"
  /\ \E t \in {ScoreTrace(jobDescription, candidates[i])} :
      TaskWrite(i, "additive", "missing", taskScore[ScoreCell(i)] + (t.additive - 40))

\* if (missingRequired.length > 0) ...
TaskMissing(i) ==
  /\ taskPc[i] = "missing"
  /\ \E t \in {ScoreTrace(jobDescription, candidates[i])} :
      TaskWrite(i, "missing", "role", MissingPenalty(taskScore[ScoreCell(i)], t.missingCount))

\* if (constraints.roleKeywords.length > 0) ...
TaskRole(i) ==
  /\ taskPc[i] = "role"
  /\ \E t \in {ScoreTrace(jobDescription, candidates[i])} :
      TaskWrite(i, "role", "years",
                RolePenalty(taskScore[ScoreCell(i)],
                            extractJdConstraints(jobDescription).roleKeywords,
                            t.roleMatched))

\* if (jdYears != null && candYears != null && candYears < jdYears - 0.5) ...
TaskYears(i) ==
  /\ taskPc[i] = "years"
  /\ \E t \in {ScoreTrace(jobDescription, candidates[i])} :
      TaskWrite(i, "years", "return", YearsPenalty(taskScore[ScoreCell(i)], t.jdYears, t.candYears))

\* return Math.max(0, Math.min(100, Math.round(score)))
TaskReturn(i) ==
  /\ pc = "scoring"
  /\ taskPc[i] = "return"
  /\ taskResult' = [taskResult EXCEPT ![i] = ClampScore(taskScore[ScoreCell(i)])]
  /\ taskPc' = [taskPc EXCEPT ![i] = "returned"]
  /\ UNCHANGED <<taskScore, runVars, scoreVars, callVars>>

\* the array candidates.map builds from what the tasks returned
TaskMatches(results, jd, cands) ==
  [i \in 1..Len(cands) |->
     [candidateIndex |-> i - 1,
      matchPercentage |-> results[i],
      explanation |-> generateExplanation(cands[i], 0, jd)]]

\* all tasks have returned: sort, explanations, return
TasksFinish ==
  /\ pc = "scoring"
  /\ \A i \in 1..Len(candidates) : taskPc[i] = "returned"
  /\ matches' = Regenerate(SortMatches(TaskMatches(taskResult, jobDescription, candidates)),
                           candidates, jobDescription)
  /\ pc' = "done"
  /\ UNCHANGED <<parsedCandidates, jobDescription, candidates, path, error>>
  /\ UNCHANGED <<taskVars, scoreVars, callVars>>

NextTasks ==
  \/ \E i \in 1..Len(candidates) : TaskBase(i)
  \/ \E i \in 1..Len(candidates) : TaskAdditive(i)
  \/ \E i \in 1..Len(candidates) : TaskMissing(i)
  \/ \E i \in 1..Len(candidates) : TaskRole(i)
  \/ \E i \in 1..Len(candidates) : TaskYears(i)
  \/ \E i \in 1..Len(candidates) : TaskReturn(i)
  \/ TasksFinish

SpecTasks == InitTasks /\ [][NextTasks]_vars

-----------------------------------------------------------------------------
(* matchRoles calls in flight together, and parseResumes completions, on   *)
(* the one resume store of the server process. A call gives up control at  *)
(* its awaits only: the dynamic import, and the fetch inside               *)
(* interpretMatchesWithLLM that run awaits. The tool's execute callback    *)
(* calls run, and run reaches getParsedCandidates, without an await.       *)

RequestLists == {<<>>, <<CandAnn>>, <<CandBob, CandCid>>}

RequestJobDescriptions == {JdScenarioA, JdBlank}

\* replies of the LLM to a prompt listing n candidates: null, or n items that
\* name the candidates last first, or all the first one, or one past the last
RequestReplies(n) ==
  {[isNull |-> TRUE, items |-> <<>>]}
  \cup {[isNull |-> FALSE,
         items |-> [i \in 1..n |-> [candidateIndex |-> index[i], matchPercentage |-> 50,
                                    explanation |-> "llm"]]] :
          index \in {[i \in 1..n |-> n - i], [i \in 1..n |-> 0], [i \in 1..n |-> n]}}

\* every reply the LLM gives to some request
AllRequestReplies == UNION {RequestReplies(Len(cands)) : cands \in RequestLists}

\* run is a function of its job description, of the array it works on and of
\* the LLM's reply: what it returns or throws after the await, for every such
\* triple of the requests
RunAfterAwait ==
  [jd \in RequestJobDescriptions, cands \in RequestLists, reply \in AllRequestReplies |->
     LET out == RunOutcome(SortMatches(ChosenMatches(reply, jd, cands)), cands, jd)
     IN [error |-> out.error, matches |-> out.matches]]

\* CandidatesAfterAwait of a run that calls getParsedCandidates again after the await
CandidatesAfterAwaitReread(local, stored) == stored

\* the array run works on after its await: its const candidates, read from the
\* store once, before the await
CandidatesAfterAwait(local, stored) == local

\* matchRoles(jobDescription, candidates) up to await import(...)
MatchRolesCall(c, jd, cands) ==
  /\ callPc[c] = "idle"
  /\ callPc' = [callPc EXCEPT ![c] = "import"]
  /\ callArgs' = [callArgs EXCEPT ![c] = [jobDescription |-> jd, candidates |-> cands]]
  /\ UNCHANGED <<callRun, callResult, callRaced, matchResults>>
  /\ UNCHANGED <<runVars, scoreVars, taskVars>>

\* setParsedCandidates(candidates) and roleMatcherTool.execute up to run's await:
\* the input checks on the store as it is now, or the Error they throw
MatchRolesExecute(c) ==
  /\ callPc[c] = "import"
  /\ parsedCandidates' = callArgs[c].candidates
  /\ \E err \in {InputError(callArgs[c].jobDescription, parsedCandidates')} :
       IF err = ""
       THEN /\ callRun' = [callRun EXCEPT ![c] = parsedCandidates']
            /\ callPc' = [callPc EXCEPT ![c] = "awaitLLM"]
            /\ UNCHANGED callResult
       ELSE /\ callResult' = [callResult EXCEPT ![c] = [error |-> err, matches |-> <<>>]]
            /\ callPc' = [callPc EXCEPT ![c] = "settled"]
            /\ UNCHANGED callRun
  /\ UNCHANGED <<callArgs, callRaced, matchResults>>
  /\ UNCHANGED <<pc, jobDescription, candidates, path, matches, error>>
  /\ UNCHANGED <<scoreVars, taskVars>>

\* run resumes with the LLM's reply: choice of the matches, sort, explanations
MatchRolesResume(c, reply) ==
  /\ callPc[c] = "awaitLLM"
  /\ callResult' = [callResult EXCEPT ![c] =
                       RunAfterAwait[callArgs[c].jobDescription,
                                     CandidatesAfterAwait(callRun[c], parsedCandidates),
                                     reply]]
  /\ callRaced' = [callRaced EXCEPT ![c] = parsedCandidates # callRun[c]]
  /\ callPc' = [callPc EXCEPT ![c] = "settled"]
  /\ UNCHANGED <<callArgs, callRun, matchResults>>
  /\ UNCHANGED <<runVars, scoreVars, taskVars>>

\* matchRoles after await roleMatcherTool.execute: setMatchResults(result) and
\* return, or the Error of run passed on
MatchRolesReturn(c) ==
  /\ callPc[c] = "settled"
  /\ callPc' = [callPc EXCEPT ![c] = "done"]
  /\ matchResults' = IF callResult[c].error = "" THEN callResult[c].matches
                     ELSE matchResults
  /\ UNCHANGED <<callArgs, callRun, callResult, callRaced>>
  /\ UNCHANGED <<runVars, scoreVars, taskVars>>

\* parseResumes after await resumeParserTool.execute: setParsedCandidates(result)
ParseResumesComplete(result) ==
  /\ parsedCandidates' = result
  /\ UNCHANGED <<pc, jobDescription, candidates, path, matches, error>>
  /\ UNCHANGED <<scoreVars, taskVars, callVars>>

NextRequests ==
  \/ \E c \in Calls, jd \in RequestJobDescriptions, cands \in RequestLists :
       MatchRolesCall(c, jd, cands)
  \/ \E c \in Calls : MatchRolesExecute(c)
  \/ \E c \in Calls : \E reply \in RequestReplies(Len(callRun[c])) :
       MatchRolesResume(c, reply)
  \/ \E c \in Calls : MatchRolesReturn(c)
  \/ \E result \in RequestLists : ParseResumesComplete(result)

SpecRequests == Init /\ [][NextRequests]_vars

-----------------------------------------------------------------------------
(* Claims                                                                  *)

Scored == sPc \in {"scored", "explained"}
Compared == sPc \in {"compared", "scored", "explained"}
Returned == pc = "done" /\ error = ""

\* C1: for every job description and every candidate, whatever fields are empty
\* or malformed, the score calculateMatchPercentage returns is an integer in 0..100.
C1_ScoreInRange == Scored => sTrace.final \in 0..100

\* a score the clamp had to bring down to 100
C1_Witness == Scored /\ sTrace.afterYears > 100 /\ sTrace.final = 100

\* C2: a candidate who lacks a required skill scores at most 45; for the job
\* description of scenario A and a candidate whose only skill is Java the missing
\* skills are react and typescript, 16 is subtracted and the score is at most 45.
C2_MissingCap ==
  Scored =>
    /\ Len(sMissing) > 0 => sTrace.final <= 45
    /\ (sJd = JdScenarioA /\ sCand.skills = <<"Java">>) =>
         /\ sMissing = <<"react", "typescript">>
         /\ sTrace.additive - sTrace.afterMissing = 16
         /\ sTrace.final <= 45

C2_Witness ==
  /\ Scored
  /\ sJd = JdScenarioA
  /\ sCand.skills = <<"Java">>
  /\ Len(sMissing) = 2
  /\ sTrace.final <= 45

\* C3: when the job description names a role focus and the candidate meets none,
\* the score is at most 50; so for a backend-only job description and a Frontend
\* Developer with frontend skills only.
C3_RoleFocusCap ==
  Scored =>
    /\ (Len(sConstraints.roleKeywords) > 0 /\ ~sTrace.roleMatched) => sTrace.final <= 50
    /\ (sConstraints.roleKeywords = <<"backend">>
          /\ sCand.last_role = "Frontend Developer"
          /\ sCand.skills = <<"React", "Vue">>) =>
         ~sTrace.roleMatched /\ sTrace.final <= 50

C3_Witness ==
  /\ Scored
  /\ sJd = JdBackend
  /\ sConstraints.roleKeywords = <<"backend">>
  /\ sCand.last_role = "Frontend Developer"
  /\ sCand.skills = <<"React", "Vue">>
  /\ ~sTrace.roleMatched
  /\ sTrace.final <= 50

\* C4: when both years are present and the candidate's years, possibly decimal,
\* are below the job description's years minus 0.5, the score is at most 55.
C4_YearsShortfallCap ==
  Scored =>
    ((sTrace.jdYears # Null
        /\ sTrace.candYears.num # Null
        /\ 10 * sTrace.candYears.num
             < (10 * sTrace.jdYears - 5) * sTrace.candYears.den)
       => sTrace.final <= 55)

\* 4.4 years against the 5 years of scenario A
C4_Witness ==
  /\ Scored
  /\ sTrace.jdYears = 5
  /\ sTrace.candYears = [num |-> 44, den |-> 10]
  /\ sTrace.final <= 55

\* C5: the sequence run returns is ordered by matchPercentage, highest first.
C5_SortedDescending ==
  Returned =>
    \A i \in 1..(Len(matches) - 1) :
      matches[i].matchPercentage >= matches[i + 1].matchPercentage

\* the second candidate scored higher than the first and was moved to the front
C5_Witness ==
  /\ Returned
  /\ path = "heuristic"
  /\ Len(matches) = 2
  /\ matches[1].candidateIndex = 1
  /\ matches[1].matchPercentage > matches[2].matchPercentage

\* C6: candidates with equal scores keep their input order in the sequence run
\* returns: of two results with the same matchPercentage, the one of the earlier
\* candidate comes first.
C6_StableTies ==
  Returned =>
    \A a, b \in 1..Len(matches) :
      (/\ matches[a].matchPercentage = matches[b].matchPercentage
       /\ matches[a].candidateIndex < matches[b].candidateIndex) => a < b

\* C7: run throws the input error and returns nothing when the job description
\* is empty or blank, and when it is not but the store holds no candidate; the
\* job description is checked first.
C7_InputErrors ==
  pc = "done" =>
    /\ Trim(jobDescription) = "" =>
         error = JdRequiredMessage /\ matches = <<>> /\ path = "none"
    /\ (Trim(jobDescription) # "" /\ Len(parsedCandidates) = 0) =>
         error = NoResumesMessage /\ matches = <<>> /\ path = "none"

\* a blank job description and an empty store: the error is the job description's
C7_Witness ==
  /\ pc = "done"
  /\ jobDescription = JdBlank
  /\ Len(parsedCandidates) = 0
  /\ error = JdRequiredMessage

\* C8: a candidate listing node is not reported as missing the required skill
\* node.js, and one listing postgres is not reported as missing postgresql.
C8_SynonymFolding ==
  Compared =>
    /\ ("node" \in MissingCandSkills(sCand) /\ InSeq("node.js", sConstraints.requiredSkills))
         => ~InSeq("node.js", sMissing)
    /\ ("postgres" \in MissingCandSkills(sCand)
          /\ InSeq("postgresql", sConstraints.requiredSkills))
         => ~InSeq("postgresql", sMissing)

ScenarioACandidate ==
  /\ sCand.skills = <<"React", "TypeScript", "Node.js">>
  /\ sCand.total_experience = "6 years"
  /\ sCand.last_role = "Frontend Developer"

\* C10 as stated: scenario A scores at least 78 and at most 90, with no cap and
\* no penalty.
C10_ScenarioA_Stated ==
  (Scored /\ sJd = JdScenarioA /\ ScenarioACandidate) =>
    /\ sMissing = <<>>
    /\ sTrace.afterYears = sTrace.additive
    /\ sTrace.final \in 78..90

\* C10 as amended: scenario A scores 72 (40 base + 10 years + 16 for two skills
\* + 6 role), with no cap and no penalty; the job description holds no frontend
\* word, so nothing is added for frontend.
C10_ScenarioA ==
  (Scored /\ sJd = JdScenarioA /\ ScenarioACandidate) =>
    /\ sMissing = <<>>
    /\ sTrace.afterYears = sTrace.additive
    /\ sTrace.final = 72

C10_Witness == Scored /\ sJd = JdScenarioA /\ ScenarioACandidate /\ sTrace.final = 72

Extracted == sPc \in {"extracted", "compared", "scored", "explained"}
Explained == sPc = "explained"

\* the elements of a sequence
Range(q) == {q[i] : i \in 1..Len(q)}

\* C11: for the job description "Python, Django, PostgreSQL", which has no
\* requirements section, extractJdConstraints returns requiredSkills equal to
\* exactly the set {python, django, postgresql}.
C11_ScenarioC ==
  (Extracted /\ sJd = JdPython) =>
    Range(sConstraints.requiredSkills) = {"python", "django", "postgresql"}

\* C12: whatever the job description text, empty and garbage included, and
\* whichever properties of the candidate are undefined or empty, the three
\* functions return a value and throw nothing; a pattern that matches nothing
\* leaves its value unset: no years, no required skill, no role keyword.
C12_NoThrow ==
  /\ sThrown = ""
  /\ sPc # "thrown"
  /\ (Extracted /\ sJd \in {JdEmpty, JdBlank, JdGarbage}) => sConstraints = NoConstraints
  /\ (Scored /\ sCand.total_experience = "") => sTrace.candYears.num = Null
  /\ (Scored /\ sConstraints.minYears = Null) => sTrace.jdYears = Null

\* every property undefined and a job description of garbage: all three returned
C12_Witness ==
  /\ Explained
  /\ sJd = JdGarbage
  /\ \A f \in CandidateFields : ~sRaw[f].defined
  /\ sTrace.final = 40
  /\ sExplanation = "Candidate appears relevant."
  /\ sThrown = ""

\* C13: every result run returns, from LLM scores or from the deterministic
\* scorer, carries the explanation generateExplanation gives for the candidate at
\* input position candidateIndex and the job description; the explanation text
\* of the LLM is not kept.
C13_ExplanationsRecomputed ==
  Returned =>
    \A i \in 1..Len(matches) :
      /\ matches[i].candidateIndex \in 0..(Len(candidates) - 1)
      /\ matches[i].explanation =
           generateExplanation(candidates[matches[i].candidateIndex + 1],
                               matches[i].matchPercentage, jobDescription)
      /\ matches[i].explanation # "llm"

\* LLM scores, the second candidate sorted to the front, its own explanation
C13_Witness ==
  /\ Returned
  /\ path = "llm"
  /\ Len(matches) = 2
  /\ matches[1].candidateIndex = 1
  /\ matches[2].candidateIndex = 0
  /\ candidates[1] # candidates[2]
  /\ matches[1].explanation = generateExplanation(candidates[2], 0, jobDescription)
  /\ matches[1].explanation # matches[2].explanation

\* C14: a call of run, returning or throwing, leaves the candidate list of the
\* resume store as it was: same candidates, same order, same field values.
C14_StoreUnchangedByRun ==
  [][(pc = "awaitLLM" \/ (pc = "idle" /\ pc' # "idle"))
       => parsedCandidates' = parsedCandidates]_vars

\* the results were reordered by the sort, the store was not
C14_Witness ==
  /\ Returned
  /\ Len(matches) = 2
  /\ matches[1].candidateIndex = 1
  /\ parsedCandidates = candidates
  /\ parsedCandidates[1] # parsedCandidates[2]

\* C15: with one scoring task per candidate, run in any order and interleaved
\* in any way, and one sort once all have returned, the result sequence is the
\* one obtained by scoring the candidates one after the other in input order.
C15_TasksAsSequential ==
  (pc = "done" /\ Len(taskPc) > 0) =>
    matches = Regenerate(SortMatches(HeuristicMatches(jobDescription, candidates)),
                         candidates, jobDescription)

\* two different candidates scored by tasks, with different scores
C15_Witness ==
  /\ pc = "done"
  /\ Len(taskPc) = 2
  /\ candidates[1] # candidates[2]
  /\ taskResult[1] # taskResult[2]
  /\ taskResult[1] = calculateMatchPercentage(jobDescription, candidates[1])
  /\ Len(matches) = 2

\* the vocabulary tokens that occur in a text
TokensIn(text) == {t \in Range(knownTech) : Includes(text, t)}

\* the vocabulary tokens that occur in a line of the normalized job description
\* matching must have|requirements|required|qualification
TokensInRequiredLines(jd) ==
  UNION {TokensIn(line) : line \in Range(SelectSeq(SplitLines(JdClean(jd)), IsRequiredLine))}

\* C16: if some line matching must have|requirements|required|qualification
\* holds a vocabulary token, requiredSkills is exactly the set of the tokens
\* found in such lines; otherwise, and only then, it is the set of the tokens
\* found anywhere in the normalized text. It is empty iff the text holds no token.
C16_FallbackPolicy ==
  sPc = "extracted" =>
    /\ Range(sConstraints.requiredSkills) =
         (IF TokensInRequiredLines(sJd) # {}
          THEN TokensInRequiredLines(sJd) ELSE TokensIn(JdClean(sJd)))
    /\ Cardinality(Range(sConstraints.requiredSkills)) = Len(sConstraints.requiredSkills)
    /\ (sConstraints.requiredSkills = <<>>) <=> (TokensIn(JdClean(sJd)) = {})

\* python, aws and docker occur on other lines only and are not required
C16_Witness ==
  /\ Extracted
  /\ sJd = JdMixed
  /\ sConstraints.requiredSkills = <<"react">>
  /\ {"python", "aws", "docker"} \subseteq TokensIn(JdClean(sJd))

\* a requirements line without a token: the whole text is scanned
C16_WitnessFallback ==
  /\ Extracted
  /\ sJd = JdNoTechRequired
  /\ TokensInRequiredLines(sJd) = {}
  /\ sConstraints.requiredSkills = <<"python">>

\* candYears < jdYears - 0.5 on the values the scorer parsed
TraceYearsShort ==
  /\ sTrace.jdYears # Null
  /\ sTrace.candYears.num # Null
  /\ 10 * sTrace.candYears.num < (10 * sTrace.jdYears - 5) * sTrace.candYears.den

\* C17: the penalties are applied in the order missing required skills (minus
\* min(25, 8 * missing), cap 45), role focus (minus 20, cap 50), years shortfall
\* (minus 20, cap 55), each on the score the previous one left; no step raises
\* the score, so the score after the last one is at most the additive score.
C17_PenaltyOrder ==
  Scored =>
    /\ sTrace.afterMissing =
         (IF sTrace.missingCount > 0
          THEN Min(sTrace.additive - Min(25, 8 * sTrace.missingCount), 45)
          ELSE sTrace.additive)
    /\ sTrace.afterRole =
         (IF sTrace.roleFocus /\ ~sTrace.roleMatched
          THEN Min(sTrace.afterMissing - 20, 50) ELSE sTrace.afterMissing)
    /\ sTrace.afterYears =
         (IF TraceYearsShort THEN Min(sTrace.afterRole - 20, 55) ELSE sTrace.afterRole)
    /\ sTrace.afterMissing <= sTrace.additive
    /\ sTrace.afterRole <= sTrace.afterMissing
    /\ sTrace.afterYears <= sTrace.afterRole
    /\ sTrace.afterYears <= sTrace.additive

\* all three penalties applied, each lowering the score further
C17_Witness ==
  /\ Scored
  /\ sTrace.missingCount > 0
  /\ sTrace.roleFocus /\ ~sTrace.roleMatched
  /\ TraceYearsShort
  /\ sTrace.afterMissing < sTrace.additive
  /\ sTrace.afterRole < sTrace.afterMissing
  /\ sTrace.afterYears < sTrace.afterRole

\* the five parts of an explanation in their order, "" for a part left out
ExpectedParts(c, missing) ==
  <<c.last_role,
    Join(SubSeq(c.skills, 1, Min(3, Len(c.skills))), ", "),
    c.total_experience,
    c.education,
    IF Len(missing) = 0 THEN ""
    ELSE Join(SubSeq(missing, 1, Min(3, Len(missing))), ", ")
           \o (IF Len(missing) > 3 THEN ELLIPSIS ELSE "")>>

PartLabels == <<"Role: ", "Skills: ", "Experience: ", "Education: ", "Missing required: ">>

\* the parts that are not empty, each after its label
LabelledParts(parts) ==
  SelectSeq([i \in 1..5 |-> IF parts[i] = "" THEN "" ELSE PartLabels[i] \o parts[i]],
            LAMBDA x : x # "")

\* C18: the explanation lists, in this order and leaving out what is empty, the
\* role, the first 3 skills joined by commas, the experience, the education and,
\* only if a required skill is reported missing, at most 3 missing skills with an
\* ellipsis after them exactly when more than 3 are missing; for the candidate
\* of scenario A it contains "React, TypeScript, Node.js" and "6 years".
C18_ExplanationParts ==
  Explained =>
    /\ LabelledParts(ExpectedParts(sCand, sMissing)) # <<>> =>
         sExplanation =
           Join(LabelledParts(ExpectedParts(sCand, sMissing)), " " \o BULLET \o " ")
    /\ Includes(sExplanation, "Missing required: ") <=> (Len(sMissing) > 0)
    /\ Includes(sExplanation, ELLIPSIS) <=> (Len(sMissing) > 3)
    /\ ScenarioACandidate =>
         /\ Includes(sExplanation, "React, TypeScript, Node.js")
         /\ Includes(sExplanation, "6 years")

\* all five parts present, six skills of which three are listed, more than 3 missing
C18_Witness ==
  /\ Explained
  /\ sCand.last_role # "" /\ sCand.total_experience # "" /\ sCand.education # ""
  /\ Len(sCand.skills) > 3
  /\ Len(sMissing) > 3
  /\ Includes(sExplanation, "Skills: React, TypeScript, Node.js " \o BULLET)
  /\ Includes(sExplanation, ELLIPSIS)

\* C19: no explanation contains a pipe or a bullet character, whichever parts
\* are present.
C19_NoPipeNoBullet ==
  Explained => (~Includes(sExplanation, "|") /\ ~Includes(sExplanation, BULLET))

\* lastRole, skills, totalExperience and education all empty
NoSignal ==
  /\ sCand.last_role = ""
  /\ sCand.skills = <<>>
  /\ sCand.total_experience = ""
  /\ sCand.education = ""

FallbackText == (IF sCand.name = "" THEN "Candidate" ELSE sCand.name) \o " appears relevant."

\* C20 as stated: for a candidate without any signal the explanation is
\* "<name> appears relevant.", "Candidate" standing for an empty name, whatever
\* the job description.
C20_Fallback_Stated == (Explained /\ NoSignal) => sExplanation = FallbackText

\* C20 as amended: for a candidate without any signal the explanation is
\* "<name> appears relevant.", "Candidate" standing for an empty name, when the
\* job description yields no required skill; when it yields some, all of them
\* are missing and the explanation is the part listing missing skills alone.
C20_Fallback ==
  (Explained /\ NoSignal) =>
    /\ sConstraints.requiredSkills = <<>> => sExplanation = FallbackText
    /\ sConstraints.requiredSkills # <<>> =>
         /\ sMissing = sConstraints.requiredSkills
         /\ sExplanation =
              "Missing required: "
                \o Join(SubSeq(sMissing, 1, Min(3, Len(sMissing))), ", ")
                \o (IF Len(sMissing) > 3 THEN ELLIPSIS ELSE "")

\* a named candidate without any signal and a job description without any token
C20_Witness ==
  /\ Explained
  /\ NoSignal
  /\ sCand.name = "Ann"
  /\ sConstraints.requiredSkills = <<>>
  /\ sExplanation = "Ann appears relevant."

\* the same candidate and the job description of scenario A
C20_WitnessMissing ==
  /\ Explained
  /\ NoSignal
  /\ sJd = JdScenarioA
  /\ sExplanation = "Missing required: react, typescript"

\* C21: the experience bonus is 10 if candYears >= jdYears, else 6 if
\* jdYears - candYears <= 1, else 3 if jdYears - candYears <= 2, else 0, when
\* both years are present; when either is absent there is neither a bonus nor a
\* years-shortfall penalty.
C21_ExperienceBonus ==
  Scored =>
    /\ (sTrace.jdYears # Null /\ sTrace.candYears.num # Null) =>
         sTrace.yearsBonus =
           (IF sTrace.candYears.num >= sTrace.jdYears * sTrace.candYears.den THEN 10
            ELSE IF (sTrace.jdYears - 1) * sTrace.candYears.den <= sTrace.candYears.num
                 THEN 6
            ELSE IF (sTrace.jdYears - 2) * sTrace.candYears.den <= sTrace.candYears.num
                 THEN 3
            ELSE 0)
    /\ (sTrace.jdYears = Null \/ sTrace.candYears.num = Null) =>
         sTrace.yearsBonus = 0 /\ sTrace.afterYears = sTrace.afterRole
    /\ sTrace.additive =
         40 + sTrace.yearsBonus + sTrace.skillsBonus + sTrace.roleBonus
            + sTrace.educationBonus

\* one year below the two years asked for: 6
C21_Witness ==
  /\ Scored
  /\ sTrace.jdYears = 2
  /\ sTrace.candYears = [num |-> 1, den |-> 1]
  /\ sTrace.yearsBonus = 6

\* experience text without years against a job description with years
C21_WitnessAbsent ==
  /\ Scored
  /\ sTrace.jdYears = 5
  /\ sCand.total_experience = ""
  /\ sTrace.yearsBonus = 0
  /\ sTrace.afterYears = sTrace.afterRole

\* a candidate skill lower-cased, its whitespace normalized, its synonym folded
FoldedSkill(x) ==
  LET n == NormalizeWs(ToLowerCase(x))
  IN IF n = "node" THEN "node.js" ELSE IF n = "postgres" THEN "postgresql" ELSE n

\* the vocabulary tokens the job description mentions and the candidate has
OverlapTokens(jd, c) ==
  {t \in TokensIn(JdClean(jd)) : \E i \in 1..Len(c.skills) : FoldedSkill(c.skills[i]) = t}

\* C22: the skill-overlap bonus is min(35, 8 * k), k being the number of distinct
\* vocabulary tokens mentioned by the job description that are in the candidate's
\* normalized, synonym-folded skill set; equal or synonym-equivalent skills of
\* the candidate count once, and 5 overlaps or more give 35.
C22_OverlapBonus ==
  sPc = "scored" =>
    /\ sTrace.overlap = Cardinality(OverlapTokens(sJd, sCand))
    /\ sTrace.skillsBonus = Min(35, 8 * Cardinality(OverlapTokens(sJd, sCand)))
    /\ sTrace.overlap >= 5 => sTrace.skillsBonus = 35

\* node and Node.js count once, postgres counts as postgresql
C22_Witness ==
  /\ Scored
  /\ sJd = JdBackend
  /\ sCand.skills = <<"node", "Node.js", "postgres">>
  /\ sTrace.overlap = 2
  /\ sTrace.skillsBonus = 16

\* more than 5 overlaps
C22_WitnessLimit == Scored /\ sTrace.overlap > 5 /\ sTrace.skillsBonus = 35

\* C23: when run returns an LLM array it accepted, every matchPercentage is an
\* integer from 0 to 100, whatever numbers the LLM gave.
C23_LlmScoresInRange ==
  (Returned /\ path = "llm") =>
    \A i \in 1..Len(matches) : matches[i].matchPercentage \in 0..100

\* C24: every run that returns, on either branch, returns one result per
\* candidate: the candidateIndex values are a permutation of 0..n-1 for the n
\* candidates, none twice, none missing, none out of range.
C24_OnePerCandidate ==
  Returned =>
    /\ Len(matches) = Len(candidates)
    /\ {matches[i].candidateIndex : i \in 1..Len(matches)} = 0..(Len(candidates) - 1)

\* C25: with a job description that is not blank and a store that is not empty
\* run returns a result and throws nothing, whatever the LLM providers do; when
\* no LLM array is accepted every candidate gets the deterministic score.
C25_NeverThrows ==
  (pc = "done" /\ Trim(jobDescription) # "" /\ Len(candidates) > 0) =>
    /\ error = ""
    /\ Len(matches) = Len(candidates)
    /\ path = "heuristic" =>
         \A i \in 1..Len(matches) :
           matches[i].matchPercentage =
             calculateMatchPercentage(jobDescription,
                                      candidates[matches[i].candidateIndex + 1])

\* skills added to a candidate's list
AddedSkills == {"Go", "node"}

WithSkill(c, x) == [c EXCEPT !.skills = Append(@, x)]

\* C26: for a fixed job description and fixed other fields, a candidate with one
\* more skill in its list never scores lower.
C26_SkillMonotone ==
  sPc = "scored" =>
    \A x \in AddedSkills :
      ScoreSteps(JdClean(sJd), sConstraints, WithSkill(sCand, x)).final >= sTrace.final

\* the added skill was the only one missing: the cap of 45 no longer applies
C26_Witness ==
  /\ Scored
  /\ sTrace.final <= 45
  /\ sTrace.missingCount > 0
  /\ \E x \in AddedSkills :
       /\ computeMissingRequiredSkills(sConstraints.requiredSkills, WithSkill(sCand, x)) = <<>>
       /\ calculateMatchPercentage(sJd, WithSkill(sCand, x)) > 45

\* C27: a required skill that the candidate lists verbatim, up to case and
\* surrounding whitespace, is not reported missing; so for node and postgres.
C27_VerbatimNotMissing ==
  Compared =>
    \A i \in 1..Len(sConstraints.requiredSkills) :
      (\E k \in 1..Len(sCand.skills) :
         Trim(ToLowerCase(sCand.skills[k])) = sConstraints.requiredSkills[i])
        => ~InSeq(sConstraints.requiredSkills[i], sMissing)

\* a letter or a digit at position i of s; FALSE outside s
WordCharAt(s, i) == i \in 1..Len(s) /\ At(s, i) \in (LowerSet \cup DigitSet)

\* the vocabulary tokens that occur in a normalized text as whole words
WholeWordTokensIn(clean) ==
  {t \in Range(knownTech) :
     \E i \in 1..Len(clean) :
       /\ StartsAt(clean, i, t)
       /\ ~WordCharAt(clean, i - 1)
       /\ ~WordCharAt(clean, i + Len(t))}

\* the vocabulary tokens that occur in the job description as whole words
WholeWordTokens(jd) == WholeWordTokensIn(JdClean(jd))

\* C28: a candidate whose skill list holds every vocabulary technology that
\* occurs as a whole word in the job description is reported as missing nothing,
\* and neither the missing-skill penalty nor the cap of 45 is applied.
C28_WholeWordsSuffice ==
  (sPc = "scored"
     /\ \A t \in WholeWordTokens(sJd) :
          \E k \in 1..Len(sCand.skills) : Trim(ToLowerCase(sCand.skills[k])) = t)
    => (sMissing = <<>> /\ sTrace.afterMissing = sTrace.additive)

\* C30: a candidate missing a required skill who also fails the role focus
\* scores at most 25; with a years shortfall on top, at most 5; and the score is
\* 0, not negative, when the running score has fallen below 0.
C30_PenaltiesCompound ==
  Scored =>
    /\ (sTrace.missingCount > 0 /\ sTrace.roleFocus /\ ~sTrace.roleMatched) =>
         /\ sTrace.final <= 25
         /\ TraceYearsShort => sTrace.final <= 5
    /\ sTrace.afterYears < 0 => sTrace.final = 0
    /\ sTrace.final >= 0

\* all three conditions, a running score below 0, a final score of 0
C30_Witness ==
  /\ Scored
  /\ sTrace.missingCount > 0
  /\ sTrace.roleFocus /\ ~sTrace.roleMatched
  /\ TraceYearsShort
  /\ sTrace.afterYears < 0
  /\ sTrace.final = 0

\* missing skill and role focus only, the score right at 25
C30_WitnessAtCap ==
  /\ Scored
  /\ sTrace.missingCount > 0
  /\ sTrace.roleFocus /\ ~sTrace.roleMatched
  /\ ~TraceYearsShort
  /\ sTrace.final = 25


\* the result of a run of its own over the arguments args and the LLM's reply
IsolatedResult(args, reply) == RunAfterAwait[args.jobDescription, args.candidates, reply]

\* C29: in every interleaving of matchRoles calls and parseResumes completions,
\* the run of a call works on the list passed to that call, throws what its own
\* arguments make it throw, and its result is the one a run alone over the
\* call's own list gives, with one entry per candidate of that list
C29_CallsIsolated ==
  [][\A c \in Calls :
       /\ callPc[c] = "import" /\ callPc'[c] = "awaitLLM"
            => callRun'[c] = callArgs[c].candidates
       /\ callPc[c] = "import" /\ callPc'[c] = "settled"
            => callResult'[c].error = InputError(callArgs[c].jobDescription,
                                                 callArgs[c].candidates)
       /\ callPc[c] = "awaitLLM" /\ callPc'[c] = "settled"
            => /\ \E reply \in RequestReplies(Len(callArgs[c].candidates)) :
                    callResult'[c] = IsolatedResult(callArgs[c], reply)
               /\ callResult'[c].error = ""
                    => Len(callResult'[c].matches) = Len(callArgs[c].candidates)]_vars

\* a call has returned its matches although another call or a parseResumes
\* completion had replaced the store while its run awaited the LLM
C29_Witness ==
  \E c \in Calls :
    /\ callPc[c] = "done"
    /\ callRaced[c]
    /\ callResult[c].error = ""
    /\ Len(callResult[c].matches) = Len(callArgs[c].candidates)

\* two calls with different lists have both returned matches, the run of one
\* having resumed while the store held the other's list
C29_WitnessTwoCalls ==
  \E c, d \in Calls :
    /\ c # d
    /\ callPc[c] = "done" /\ callPc[d] = "done"
    /\ callArgs[c].candidates # callArgs[d].candidates
    /\ callRaced[c]
    /\ callResult[c].error = "" /\ callResult[d].error = ""

====
